---- MODULE Spec2Model ----
(***************************************************************************)
(* A model of the LISA/ISA returns simulator: accounts.py (the penalty     *)
(* curve, the compounding accounts) and portfolio.py (fund allocation,     *)
(* the simulation and the ratio optimizer).                                *)
(*                                                                         *)
(* Numbers.  The program computes in binary floating point; the model      *)
(* computes in decimal fixed point, every quantity an integer count of a   *)
(* unit given by Unit, and every product or quotient rounded down to the   *)
(* unit.  Money is counted in pence, so a contribution of 1000 pounds      *)
(* compounded at 1.1 stays exact for five years, as it does up to the last *)
(* binary digit in the program.  The one place where the last binary      *)
(* digit decides an outcome, the comparison of final values by the         *)
(* optimizer, also has the floats of allocate_funds in exact binary64.     *)
(***************************************************************************)
EXTENDS Integers, Sequences, FiniteSets, TLC

VARIABLES
    account,     \* the Account object: kind, yearly_contribution, interest_rate, num_years
    portfolio,   \* the Portfolio object: its four parameters, accounts, total_money_list
    analysis,    \* the Visual_Analysis object: the parameters it hands the optimizer
    call,        \* the most recent call: its name and its arguments
    ret,         \* what that call gave back: a value or the exception raised, and
                 \* what it printed
    runs         \* history: how many run_simulation calls were made, the arguments
                 \* of the latest, and whether it repeated those of the one before

vars == <<account, portfolio, analysis, call, ret, runs>>

----------------------------------------------------------------------------
(* Fixed-point units: how many model units make 1.0 of each quantity.      *)
Unit == [ money |-> 100,      \* pence per pound
          rate  |-> 10,       \* interest_rate 1.1 is 11
          ratio |-> 100,      \* lisa_ratio 0.4 is 40
          prob  |-> 10,       \* emigration_prob 0.1 is 1
          pen   |-> 4000,     \* a penalty (and the sigmoid) of 0.5 is 2000
          arg   |-> 1000,     \* the exponent shifted_x
          exp   |-> 10000 ]   \* the value of e**shifted_x

Pounds(n) == n * Unit.money

Min(a, b) == IF a <= b THEN a ELSE b

\* floor(a * b / d) without forming a * b; exact for d > 0 and 0 <= b.
MulDiv(a, b, d) == (a \div d) * b + ((a % d) * b) \div d

Some(v) == [status |-> "ok", value |-> v, printed |-> <<>>]
Raise(e) == [status |-> e, value |-> <<>>, printed |-> <<>>]
None == [status |-> "none", value |-> <<>>, printed |-> <<>>]
\* an attribute the object does not have yet, and one it has
Unset == [set |-> FALSE, value |-> <<>>]
Attr(v) == [set |-> TRUE, value |-> <<v>>]

----------------------------------------------------------------------------
(* Python floats.  Where only the last binary digit separates two results   *)
(* the pence of the fixed-point model cannot tell them apart, so the floats *)
(* of allocate_funds are also computed as the program computes them: in     *)
(* binary64, every operation rounded to 53 significant bits, ties to even.  *)
(* A float is held as a natural number counting units of 2^-60, and a       *)
(* natural number as the sequence of its digits in base 2^15, lowest first. *)

LimbBits == 15
LimbBase == 32768
MantissaBits == 53
FloatScale == 60

RECURSIVE Pow2(_)
Pow2(n) == IF n = 0 THEN 1 ELSE 2 * Pow2(n - 1)

RECURSIVE IntBits(_)
\* the number of binary digits of n
IntBits(n) == IF n = 0 THEN 0 ELSE 1 + IntBits(n \div 2)

RECURSIVE BigNorm(_)
\* a without its leading zero digits
BigNorm(a) ==
    IF a # <<>> /\ a[Len(a)] = 0 THEN BigNorm(SubSeq(a, 1, Len(a) - 1)) ELSE a

RECURSIVE BigOfInt(_)
BigOfInt(n) == IF n = 0 THEN <<>> ELSE <<n % LimbBase>> \o BigOfInt(n \div LimbBase)

Limb(a, i) == IF i <= Len(a) THEN a[i] ELSE 0

RECURSIVE BigAddFrom(_, _, _, _)
BigAddFrom(a, b, i, carry) ==
    IF i > Len(a) /\ i > Len(b) THEN (IF carry = 0 THEN <<>> ELSE <<carry>>)
    ELSE LET s == Limb(a, i) + Limb(b, i) + carry
         IN  <<s % LimbBase>> \o BigAddFrom(a, b, i + 1, s \div LimbBase)

BigAdd(a, b) == BigAddFrom(a, b, 1, 0)

RECURSIVE BigSubFrom(_, _, _, _)
BigSubFrom(a, b, i, borrow) ==
    IF i > Len(a) THEN <<>>
    ELSE LET d == Limb(a, i) - Limb(b, i) - borrow
         IN  <<(d + LimbBase) % LimbBase>>
             \o BigSubFrom(a, b, i + 1, IF d < 0 THEN 1 ELSE 0)

\* a - b for a >= b
BigSub(a, b) == BigNorm(BigSubFrom(a, b, 1, 0))

RECURSIVE BigLessFrom(_, _, _)
BigLessFrom(a, b, i) ==
    IF i = 0 THEN FALSE
    ELSE IF a[i] # b[i] THEN a[i] < b[i]
    ELSE BigLessFrom(a, b, i - 1)

BigLess(a, b) ==
    IF Len(a) # Len(b) THEN Len(a) < Len(b) ELSE BigLessFrom(a, b, Len(a))

RECURSIVE BigMulFrom(_, _, _, _)
BigMulFrom(a, k, i, carry) ==
    IF i > Len(a) THEN (IF carry = 0 THEN <<>> ELSE <<carry>>)
    ELSE LET p == a[i] * k + carry
         IN  <<p % LimbBase>> \o BigMulFrom(a, k, i + 1, p \div LimbBase)

\* a * k for 0 <= k < LimbBase
BigMulSmall(a, k) == BigNorm(BigMulFrom(a, k, 1, 0))

RECURSIVE BigDivFrom(_, _, _, _)
BigDivFrom(a, k, i, rem) ==
    IF i = 0 THEN <<>>
    ELSE LET n == rem * LimbBase + a[i]
         IN  BigDivFrom(a, k, i - 1, n % k) \o <<n \div k>>

\* floor(a / k) and a mod k for 0 < k < LimbBase
BigDivSmall(a, k) == BigNorm(BigDivFrom(a, k, Len(a), 0))

RECURSIVE BigModFrom(_, _, _, _)
BigModFrom(a, k, i, rem) ==
    IF i = 0 THEN rem ELSE BigModFrom(a, k, i - 1, (rem * LimbBase + a[i]) % k)

BigModSmall(a, k) == BigModFrom(a, k, Len(a), 0)

BigBits(a) == IF a = <<>> THEN 0 ELSE LimbBits * (Len(a) - 1) + IntBits(a[Len(a)])

\* a * 2^n and floor(a / 2^n)
BigShl(a, n) ==
    IF a = <<>> THEN <<>>
    ELSE [i \in 1..(n \div LimbBits) |-> 0] \o BigMulSmall(a, Pow2(n % LimbBits))

BigShr(a, n) ==
    BigDivSmall(SubSeq(a, n \div LimbBits + 1, Len(a)), Pow2(n % LimbBits))

\* q * 2^shift + rem, rem below 2^shift, is rounded up to (q + 1) * 2^shift:
\* when rem is above the half 2^(shift - 1), and at the half when q is odd
RoundsUp(q, rem, half, sticky) ==
    \/ BigLess(half, rem)
    \/ rem = half /\ (sticky \/ q[1] % 2 = 1)

\* x of more than 53 digits, q its leading 53, rounded to those
FlRound(x, sticky, shift, q) ==
    BigShl(IF RoundsUp(q, BigSub(x, BigShl(q, shift)), BigShl(<<1>>, shift - 1), sticky)
           THEN BigAdd(q, <<1>>)
           ELSE q,
           shift)

\* x rounded to the nearest float, ties to even; `sticky` says that the number
\* to round is a little above x
Fl(x, sticky) ==
    IF BigBits(x) <= MantissaBits THEN x
    ELSE FlRound(x, sticky, BigBits(x) - MantissaBits,
                 BigShr(x, BigBits(x) - MantissaBits))

\* the float of an int, and the float the literal k / 100 denotes
FloatOfInt(n) == BigShl(BigOfInt(n), FloatScale)

FloatOfRatio(k) ==
    Fl(BigDivSmall(FloatOfInt(k), Unit.ratio), BigModSmall(FloatOfInt(k), Unit.ratio) # 0)

\* a + b, a - b (a >= b) and n * a (n an int below LimbBase) on floats
FloatAdd(a, b) == Fl(BigAdd(a, b), FALSE)
FloatSub(a, b) == Fl(BigSub(a, b), FALSE)
FloatMulInt(n, a) == Fl(BigMulSmall(a, n), FALSE)

----------------------------------------------------------------------------
(* accounts.py: penalty_function                                           *)

\* floor(10000 * e**n) for n = -10 .. 11
ExpIntTable ==
    << 0, 1, 3, 9, 24, 67, 183, 497, 1353, 3678,
       10000, 27182, 73890, 200855, 545981, 1484131, 4034287, 10966331,
       29809579, 81030839, 220264657, 598741417 >>

ExpInt(n) == IF n < -10 THEN 0 ELSE ExpIntTable[n + 11]

RECURSIVE ExpSeries(_, _, _)
\* the Taylor series of e**(f/1000) from term k on, `term` being term k - 1
ExpSeries(f, k, term) ==
    IF term = 0 THEN 0
    ELSE LET t == (term * f) \div (k * Unit.arg)
         IN  t + ExpSeries(f, k + 1, t)

\* np.e ** (z / 1000), in units of 1/10000, for z < 12000
Exp(z) ==
    LET n == z \div Unit.arg
        f == z % Unit.arg
    IN  MulDiv(ExpInt(n), Unit.exp + ExpSeries(f, 1, Unit.exp), Unit.exp)

\* the largest exponent whose power the model's integers hold; beyond it
\* 1 / (1 + e**shifted_x) is below every unit
ExpArgLimit == 12 * Unit.arg

central_point_default == 20000
max_value_default == 2000
scale_default == 2000

\* the first exponent at which a float power overflows: e**709.783 is above the
\* largest double, and ** on Python floats then raises OverflowError
ExpOverflowArg == 709 * Unit.arg + 783

\* the exponent's sign flipped: (x - central_point) / scale
penalty_function_falling(x, central_point, max_value, scale) ==
    LET shifted_x == MulDiv(x - central_point, Unit.arg, scale)
        sigmoid == IF shifted_x >= ExpArgLimit THEN 0
                   ELSE (Unit.pen * Unit.exp) \div (Unit.exp + Exp(shifted_x))
    IN  IF shifted_x >= ExpOverflowArg THEN Raise("OverflowError")
        ELSE Some(MulDiv(max_value, sigmoid, Unit.pen))

\* x is a Python number, as compound_interest produces and as a caller passes
penalty_function(x, central_point, max_value, scale) ==
    LET shifted_x == MulDiv(central_point - x, Unit.arg, scale)
        sigmoid == IF shifted_x >= ExpArgLimit THEN 0
                   ELSE (Unit.pen * Unit.exp) \div (Unit.exp + Exp(shifted_x))
        output == MulDiv(max_value, sigmoid, Unit.pen)
    IN  IF shifted_x >= ExpOverflowArg THEN Raise("OverflowError")
        ELSE Some(output)

\* penalty_function(money) with the default curve.  The balances of a
\* projection are never below 0, so the exponent is at most 10: no overflow.
penalty_default(x) ==
    penalty_function(x, Pounds(central_point_default), max_value_default,
                     Pounds(scale_default)).value

----------------------------------------------------------------------------
(* accounts.py: Account, ISA, LISA                                         *)

\* `given` is history: the contribution the constructor was called with
Account_init(kind, given, yearly_contribution, interest_rate) ==
    [ kind |-> kind,
      given |-> given,
      yearly_contribution |-> yearly_contribution,
      interest_rate |-> interest_rate,
      num_years |-> Unset ]

Account_new(yearly_contribution, interest_rate) ==
    Account_init("Account", yearly_contribution, yearly_contribution, interest_rate)

ISA_init(yearly_contribution, interest_rate) ==
    Account_init("ISA", yearly_contribution, yearly_contribution, interest_rate)

bonus_cap == 1000

\* the bonus without its cap
LISA_init_uncapped(yearly_contribution, interest_rate) ==
    Account_init("LISA", yearly_contribution,
                 yearly_contribution + (25 * yearly_contribution) \div 100,
                 interest_rate)

\* no government bonus at all
LISA_init_no_bonus(yearly_contribution, interest_rate) ==
    Account_init("LISA", yearly_contribution, yearly_contribution, interest_rate)

LISA_init(yearly_contribution, interest_rate) ==
    LET adjusted_contribution ==
            yearly_contribution
            + Min(Pounds(bonus_cap), (25 * yearly_contribution) \div 100)
    IN  Account_init("LISA", yearly_contribution, adjusted_contribution, interest_rate)

initial_balance == 0

RECURSIVE compound_loop(_, _, _, _)
\* the loop of compound_interest with i iterations left
compound_loop(self, i, total_money, total_money_per_year) ==
    IF i <= 0 THEN total_money_per_year
    ELSE LET t == ((total_money + self.yearly_contribution) * self.interest_rate)
                  \div Unit.rate
         IN  compound_loop(self, i - 1, t, Append(total_money_per_year, t))

\* range(num_years + 1): one year too many
compound_interest_extra_year(self, num_years) ==
    compound_loop(self, num_years + 1, initial_balance, <<>>)

compound_interest(self, num_years) ==
    compound_loop(self, num_years, initial_balance, <<>>)

\* the probability is left out: money * (1 - penalty)
apply_emigration_penalty_certain(money_list, emigration_prob) ==
    [ k \in 1..Len(money_list) |->
        LET money == money_list[k]
            penalty == penalty_default(money)
        IN  MulDiv(money, Unit.pen - penalty, Unit.pen) ]

apply_emigration_penalty(money_list, emigration_prob) ==
    [ k \in 1..Len(money_list) |->
        LET money == money_list[k]
            penalty == penalty_default(money)
        IN  MulDiv(money, Unit.prob * Unit.pen - emigration_prob * penalty,
                   Unit.prob * Unit.pen) ]

----------------------------------------------------------------------------
(* portfolio.py: Portfolio                                                 *)

lisa_cap_default == 4000

Portfolio_init(yearly_investment, interest_rate, lisa_ratio, lisa_cap) ==
    [ yearly_investment |-> yearly_investment,
      interest_rate |-> interest_rate,
      lisa_ratio |-> lisa_ratio,
      lisa_cap |-> lisa_cap,
      accounts |-> <<>>,
      total_money_list |-> Unset ]

\* the warning allocate_funds prints: the cap and the excess it names
Warning(lisa_cap, excess) == <<"LISA contribution in excess", lisa_cap, excess>>

\* the excess over the cap is dropped instead of moved to the ISA
allocate_funds_drop_excess(self, show_warning_message) ==
    LET lisa_allocation == (self.yearly_investment * self.lisa_ratio) \div Unit.ratio
        isa_allocation ==
            (self.yearly_investment * (Unit.ratio - self.lisa_ratio)) \div Unit.ratio
    IN  Some(<<Min(lisa_allocation, self.lisa_cap), isa_allocation>>)

\* the cap is enforced only on the silent path: asked for the warning, the
\* call prints it and returns the shares as first computed
allocate_funds_warn_only(self, show_warning_message) ==
    LET lisa_cap == self.lisa_cap
        lisa_allocation == (self.yearly_investment * self.lisa_ratio) \div Unit.ratio
        isa_allocation ==
            (self.yearly_investment * (Unit.ratio - self.lisa_ratio)) \div Unit.ratio
    IN  IF lisa_allocation > lisa_cap /\ show_warning_message
        THEN [ status |-> "ok",
               value |-> <<lisa_allocation, isa_allocation>>,
               printed |-> <<Warning(lisa_cap, lisa_allocation - lisa_cap)>> ]
        ELSE IF lisa_allocation > lisa_cap
        THEN Some(<<lisa_cap, isa_allocation + (lisa_allocation - lisa_cap)>>)
        ELSE Some(<<lisa_allocation, isa_allocation>>)

\* what allocate_funds returns, and what it prints
allocate_funds(self, show_warning_message) ==
    LET lisa_cap == self.lisa_cap
        lisa_allocation == (self.yearly_investment * self.lisa_ratio) \div Unit.ratio
        isa_allocation ==
            (self.yearly_investment * (Unit.ratio - self.lisa_ratio)) \div Unit.ratio
    IN  IF lisa_allocation > lisa_cap
        THEN LET excess_lisa_allocation == lisa_allocation - lisa_cap
             IN  [ status |-> "ok",
                   value |-> <<lisa_cap, isa_allocation + excess_lisa_allocation>>,
                   printed |-> IF show_warning_message
                               THEN <<Warning(lisa_cap, excess_lisa_allocation)>>
                               ELSE <<>> ]
        ELSE Some(<<lisa_allocation, isa_allocation>>)

\* the cap enforced on the two float products
enforce_cap_float(lisa_cap, lisa_allocation, isa_allocation) ==
    IF BigLess(lisa_cap, lisa_allocation)
    THEN <<lisa_cap, FloatAdd(isa_allocation, FloatSub(lisa_allocation, lisa_cap))>>
    ELSE <<lisa_allocation, isa_allocation>>

\* lisa_allocation and isa_allocation as first multiplied out, then capped
allocations_float(yearly_investment, lisa_ratio, lisa_cap) ==
    enforce_cap_float(lisa_cap,
                      FloatMulInt(yearly_investment, lisa_ratio),
                      FloatMulInt(yearly_investment, FloatSub(FloatOfInt(1), lisa_ratio)))

\* the two floats allocate_funds returns, for an investment and a cap in
\* whole pounds
allocate_funds_float(self) ==
    allocations_float(self.yearly_investment \div Unit.money,
                      FloatOfRatio(self.lisa_ratio),
                      FloatOfInt(self.lisa_cap \div Unit.money))

\* zip() stops at the shorter list
ZipSum(a, b) == [ k \in 1..Min(Len(a), Len(b)) |-> a[k] + b[k] ]

\* the penalty is applied to the sum, so the ISA's balance is penalized too
run_simulation_penalize_sum(self, num_years, emigration_prob, apply_penalty) ==
    LET allocation == allocate_funds(self, FALSE).value
        lisa_amount_list ==
            compound_interest(LISA_init(allocation[1], self.interest_rate), num_years)
        isa_amount_list ==
            compound_interest(ISA_init(allocation[2], self.interest_rate), num_years)
        total == ZipSum(lisa_amount_list, isa_amount_list)
    IN  IF apply_penalty THEN apply_emigration_penalty(total, emigration_prob) ELSE total

\* the balances start from what the last run on this object ended with
run_simulation_carry_over(self, num_years, emigration_prob, apply_penalty) ==
    LET allocation == allocate_funds(self, FALSE).value
        stored == self.total_money_list
        carried == IF stored.set /\ Len(stored.value[1]) > 0
                   THEN stored.value[1][Len(stored.value[1])]
                   ELSE 0
        lisa_account == LISA_init(allocation[1], self.interest_rate)
        isa_account == ISA_init(allocation[2], self.interest_rate)
        lisa_amount_list == compound_interest(lisa_account, num_years)
        isa_amount_list == compound_loop(isa_account, num_years, carried, <<>>)
        penalized == IF apply_penalty
                     THEN apply_emigration_penalty(lisa_amount_list, emigration_prob)
                     ELSE lisa_amount_list
    IN  ZipSum(penalized, isa_amount_list)

\* the list run_simulation returns and stores in self.total_money_list
run_simulation(self, num_years, emigration_prob, apply_penalty) ==
    LET allocation == allocate_funds(self, FALSE).value
        yearly_lisa_contribution == allocation[1]
        yearly_isa_contribution == allocation[2]
        lisa_account == LISA_init(yearly_lisa_contribution, self.interest_rate)
        isa_account == ISA_init(yearly_isa_contribution, self.interest_rate)
        lisa_amount_list == compound_interest(lisa_account, num_years)
        isa_amount_list == compound_interest(isa_account, num_years)
        penalized == IF apply_penalty
                     THEN apply_emigration_penalty(lisa_amount_list, emigration_prob)
                     ELSE lisa_amount_list
    IN  ZipSum(penalized, isa_amount_list)

----------------------------------------------------------------------------
(* portfolio.py: optimal_ratio, optimize_portfolio                         *)
(*                                                                         *)
(* A final value is a float.  The model holds it as the balance to the     *)
(* penny together with the two floats allocate_funds returned for the      *)
(* candidate.  Of two candidates with the same balance to the penny and    *)
(* the same LISA share, the one with the larger ISA share has the final    *)
(* value that is larger, or equal where the products and sums that follow  *)
(* the allocation round its last place away.  Whether they do hangs on     *)
(* binary digits the model does not hold, so each call is told so:         *)
(* `absorbed`.                                                             *)

\* a > b on two final values
Greater(a, b) ==
    \E x \in {a}, y \in {b} :
        \/ x.pence > y.pence
        \/ /\ x.pence = y.pence
           /\ x.shares # <<>> /\ y.shares # <<>>
           /\ x.shares[1] = y.shares[1]
           /\ BigLess(y.shares[2], x.shares[2])

RECURSIVE argmax_last_from(_, _, _)
\* >= for >: among equal maxima the last one wins
argmax_last_from(results, k, best) ==
    IF k > Len(results) THEN best
    ELSE argmax_last_from(results, k + 1,
                          IF ~Greater(results[best], results[k]) THEN k ELSE best)

RECURSIVE argmax_from(_, _, _)
\* np.argmax: the scan from index k on, `best` the index of the largest so far
argmax_from(results, k, best) ==
    IF k > Len(results) THEN best
    ELSE argmax_from(results, k + 1,
                     IF Greater(results[k], results[best]) THEN k ELSE best)

\* np.argmax(results): the first index of the maximum; an empty list raises
argmax(results) == argmax_from(results, 2, 1)

\* portfolio.run_simulation(num_years, emigration_prob)[-1] for one candidate
final_value(yearly_investment, interest_rate, num_years, lisa_ratio, emigration_prob, absorbed) ==
    LET portfolio_i == Portfolio_init(yearly_investment, interest_rate, lisa_ratio,
                                      Pounds(lisa_cap_default))
        series == run_simulation(portfolio_i, num_years, emigration_prob, TRUE)
    IN  [ pence |-> series[Len(series)],
          shares |-> IF absorbed THEN <<>> ELSE allocate_funds_float(portfolio_i) ]

\* an empty candidate list answered with the sentinel -1 instead of an error
optimal_ratio_sentinel(yearly_investment, interest_rate, num_years, lisa_ratios, emigration_prob, print_result, absorbed) ==
    IF Len(lisa_ratios) = 0 THEN Some(-1)
    ELSE IF num_years <= 0 THEN Raise("IndexError")
    ELSE LET results == [ i \in 1..Len(lisa_ratios) |->
                            final_value(yearly_investment, interest_rate, num_years,
                                        lisa_ratios[i], emigration_prob, absorbed) ]
         IN  Some(lisa_ratios[argmax(results)])

optimal_ratio(yearly_investment, interest_rate, num_years, lisa_ratios, emigration_prob, print_result, absorbed) ==
    IF Len(lisa_ratios) = 0 THEN Raise("ValueError")      \* np.argmax([])
    ELSE IF num_years <= 0 THEN Raise("IndexError")       \* [][-1]
    ELSE LET results == [ i \in 1..Len(lisa_ratios) |->
                            final_value(yearly_investment, interest_rate, num_years,
                                        lisa_ratios[i], emigration_prob, absorbed) ]
             best_value_index == argmax(results)
             best_value == results[best_value_index]
             best_ratio == lisa_ratios[best_value_index]
         IN  [ status |-> "ok",
               value |-> best_ratio,
               printed |-> IF print_result
                           THEN << <<"Highest total =", best_value.pence>>,
                                   <<"Best ratio =", best_ratio>> >>
                           ELSE <<>> ]

RECURSIVE optimize_loop_narrowing(_, _, _, _, _, _, _, _)
\* each probability searches only the candidates up to the last best one
optimize_loop_narrowing(yearly_investment, interest_rate, num_years, lisa_ratios, emigration_probs, k, best_ratios, absorbed) ==
    IF k > Len(emigration_probs) THEN Some(best_ratios)
    ELSE LET last == IF best_ratios = <<>> THEN Unit.ratio
                     ELSE best_ratios[Len(best_ratios)]
             best_ratio == optimal_ratio(yearly_investment, interest_rate, num_years,
                                         SelectSeq(lisa_ratios, LAMBDA q : q <= last),
                                         emigration_probs[k], FALSE, k \in absorbed)
         IN  IF best_ratio.status # "ok" THEN best_ratio
             ELSE optimize_loop_narrowing(yearly_investment, interest_rate, num_years,
                                          lisa_ratios, emigration_probs, k + 1,
                                          Append(best_ratios, best_ratio.value), absorbed)

RECURSIVE optimize_loop(_, _, _, _, _, _, _, _)
\* the loop of optimize_portfolio from the k-th probability on; `absorbed` is
\* the set of the calls of optimal_ratio, by index, that are told so
optimize_loop(yearly_investment, interest_rate, num_years, lisa_ratios, emigration_probs, k, best_ratios, absorbed) ==
    IF k > Len(emigration_probs) THEN Some(best_ratios)
    ELSE LET best_ratio == optimal_ratio(yearly_investment, interest_rate, num_years,
                                         lisa_ratios, emigration_probs[k], FALSE,
                                         k \in absorbed)
         IN  IF best_ratio.status # "ok" THEN best_ratio
             ELSE optimize_loop(yearly_investment, interest_rate, num_years,
                                lisa_ratios, emigration_probs, k + 1,
                                Append(best_ratios, best_ratio.value), absorbed)

optimize_portfolio(yearly_investment, interest_rate, num_years, lisa_ratios, emigration_probs, absorbed) ==
    optimize_loop(yearly_investment, interest_rate, num_years, lisa_ratios,
                  emigration_probs, 1, <<>>, absorbed)

----------------------------------------------------------------------------
(* Bounds and the inputs the calls draw from                               *)

MaxYears == 5       \* the longest projection asked for
MaxRuns == 2        \* run_simulation calls in one run of the portfolio script

Years == -1..MaxYears
Rates == {10, 11}
Contributions == { Pounds(k) : k \in {0, 1000, 2000, 4000, 5000, 8000} }
Probs == {0, 1, 5, 10}

\* balances the penalty curve is asked about, in pence, and the two sets of
\* curve parameters the repository uses (the defaults; testing.py's 0, 0.5, 2)
Balances ==
    { Pounds(k) : k \in {-1500000, -4000, -20, 0, 10000, 18000, 20000, 22000,
                         30000, 60000} }
    \cup {-500, -100, 100, 500}
CurveParams ==
    { <<Pounds(central_point_default), max_value_default, Pounds(scale_default)>>,
      <<0, max_value_default, Pounds(2)>> }

Investments == { Pounds(k) : k \in {0, 4000, 10000} }
Ratios == {0, 20, 40, 50, 100}
Caps == { Pounds(k) : k \in {0, lisa_cap_default, 5000} }

\* the candidate ratios and the probability sweeps handed to the optimizer
RatioSeqs ==
    { <<>>, <<0, 20, 40>>, <<0, 10, 20, 30, 40, 50>>, <<50, 40, 10, 40>>, <<40, 41>> }
ProbSeqs == { <<>>, <<0, 2, 4, 6, 8, 10>>, <<10, 3, 0>> }

\* the calls of optimal_ratio in a sweep over n probabilities, by index, in
\* which the last place of the shares is rounded away: none, all, every third
Absorptions(n) == { {}, 1..n, { i \in 1..n : i % 3 = 0 } }

Visual_Analysis_init(yearly_investment, interest_rate, lisa_ratios, emigration_probs) ==
    [ yearly_investment |-> yearly_investment,
      interest_rate |-> interest_rate,
      lisa_ratios |-> lisa_ratios,
      emigration_probs |-> emigration_probs ]

Called(op, args) == [op |-> op, args |-> args]

----------------------------------------------------------------------------
(* The accounts: construction, projection, penalty                         *)

NewAccount ==
    \E c \in Contributions, r \in Rates :
        /\ account' = Account_new(c, r)
        /\ call' = Called("Account", <<c, r>>)
        /\ ret' = None
        /\ UNCHANGED <<portfolio, analysis, runs>>

NewISA ==
    \E c \in Contributions, r \in Rates :
        /\ account' = ISA_init(c, r)
        /\ call' = Called("ISA", <<c, r>>)
        /\ ret' = None
        /\ UNCHANGED <<portfolio, analysis, runs>>

NewLISA ==
    \E c \in Contributions, r \in Rates :
        /\ account' = LISA_init(c, r)
        /\ call' = Called("LISA", <<c, r>>)
        /\ ret' = None
        /\ UNCHANGED <<portfolio, analysis, runs>>

CompoundInterest ==
    \E num_years \in Years :
        /\ account' = [account EXCEPT !.num_years = Attr(num_years)]
        /\ call' = Called("compound_interest", <<num_years>>)
        /\ ret' = Some(compound_interest(account, num_years))
        /\ UNCHANGED <<portfolio, analysis, runs>>

\* the penalty is applied to the projection just made, as run_simulation does
ApplyEmigrationPenalty ==
    \E emigration_prob \in Probs :
        /\ account.kind = "LISA"
        /\ call.op = "compound_interest"
        /\ call' = Called("apply_emigration_penalty", <<ret.value, emigration_prob>>)
        /\ ret' = Some(apply_emigration_penalty(ret.value, emigration_prob))
        /\ UNCHANGED <<account, portfolio, analysis, runs>>

PenaltyFunction ==
    \E x \in Balances, par \in CurveParams :
        /\ call' = Called("penalty_function", <<x, par[1], par[2], par[3]>>)
        /\ ret' = penalty_function(x, par[1], par[2], par[3])
        /\ UNCHANGED <<account, portfolio, analysis, runs>>

----------------------------------------------------------------------------
(* The portfolio: allocation and simulation                                *)

\* a second Portfolio built from the parameters of the first
NewPortfolio ==
    /\ portfolio' = Portfolio_init(portfolio.yearly_investment, portfolio.interest_rate,
                                   portfolio.lisa_ratio, portfolio.lisa_cap)
    /\ UNCHANGED <<account, analysis, call, ret, runs>>

AllocateFunds ==
    \E show_warning_message \in BOOLEAN :
        /\ call' = Called("allocate_funds", <<show_warning_message>>)
        /\ ret' = allocate_funds(portfolio, show_warning_message)
        /\ UNCHANGED <<account, portfolio, analysis, runs>>

RunSimulation ==
    \E num_years \in Years, emigration_prob \in {0, 10}, apply_penalty \in BOOLEAN :
        /\ runs.made < MaxRuns
        /\ runs' = [ made |-> runs.made + 1,
                     args |-> <<num_years, emigration_prob, apply_penalty>>,
                     repeated |-> runs.made > 0
                                  /\ runs.args = <<num_years, emigration_prob, apply_penalty>> ]
        /\ LET total_money_list ==
                   run_simulation(portfolio, num_years, emigration_prob, apply_penalty)
           IN  /\ portfolio' = [portfolio EXCEPT !.total_money_list = Attr(total_money_list)]
               /\ ret' = Some(total_money_list)
        /\ call' = Called("run_simulation", <<num_years, emigration_prob, apply_penalty>>)
        /\ UNCHANGED <<account, analysis>>

----------------------------------------------------------------------------
(* The optimizer, called with the parameters the analysis object holds and  *)
(* print_result left at its default, as every caller in the repository     *)
(* does.  The two functions keep nothing from one call to the next, so a    *)
(* behaviour makes one call.                                                *)

OptimalRatio ==
    \E num_years \in Years, k \in 1..Len(analysis.emigration_probs), absorbed \in BOOLEAN :
        /\ call.op = "main"
        /\ call' = Called("optimal_ratio",
                          <<num_years, analysis.emigration_probs[k], absorbed>>)
        /\ ret' = optimal_ratio(analysis.yearly_investment, analysis.interest_rate,
                                num_years, analysis.lisa_ratios,
                                analysis.emigration_probs[k], FALSE, absorbed)
        /\ UNCHANGED <<account, portfolio, analysis, runs>>

OptimizePortfolio ==
    \E num_years \in Years, absorbed \in Absorptions(Len(analysis.emigration_probs)) :
        /\ call.op = "main"
        /\ call' = Called("optimize_portfolio", <<num_years, absorbed>>)
        /\ ret' = optimize_portfolio(analysis.yearly_investment, analysis.interest_rate,
                                     num_years, analysis.lisa_ratios,
                                     analysis.emigration_probs, absorbed)
        /\ UNCHANGED <<account, portfolio, analysis, runs>>

----------------------------------------------------------------------------
(* Specifications.  Each starts from constructed objects; the three differ  *)
(* in which object the run then works on.                                   *)

Init ==
    /\ account = Account_new(Pounds(1000), 11)
    /\ portfolio = Portfolio_init(Pounds(10000), 11, 0, Pounds(lisa_cap_default))
    /\ analysis = Visual_Analysis_init(Pounds(10000), 11, <<0, 20, 40>>, <<10, 3, 0>>)
    /\ call = Called("main", <<>>)
    /\ ret = None
    /\ runs = [made |-> 0, args |-> <<>>, repeated |-> FALSE]

InitPortfolio ==
    /\ Init!1 /\ Init!3 /\ Init!4 /\ Init!5 /\ Init!6
    /\ \E t \in Investments, r \in Rates, q \in Ratios, cap \in Caps :
           portfolio = Portfolio_init(t, r, q, cap)

InitOptimizer ==
    /\ Init!1 /\ Init!2 /\ Init!4 /\ Init!5 /\ Init!6
    /\ \E t \in {Pounds(4000), Pounds(10000)}, r \in Rates,
          qs \in RatioSeqs, ps \in ProbSeqs :
           analysis = Visual_Analysis_init(t, r, qs, ps)

NextAccount ==
    \/ NewAccount
    \/ NewISA
    \/ NewLISA
    \/ CompoundInterest
    \/ ApplyEmigrationPenalty
    \/ PenaltyFunction

NextPortfolio ==
    \/ NewPortfolio
    \/ AllocateFunds
    \/ RunSimulation

NextOptimizer ==
    \/ OptimalRatio
    \/ OptimizePortfolio

SpecAccount == Init /\ [][NextAccount]_vars
SpecPortfolio == InitPortfolio /\ [][NextPortfolio]_vars
SpecOptimizer == InitOptimizer /\ [][NextOptimizer]_vars

----------------------------------------------------------------------------
(* Claims                                                                   *)

Max(a, b) == IF a >= b THEN a ELSE b

RECURSIVE Balance(_, _, _)
\* the balance after year y of contributing c a year at rate r, from nothing
Balance(c, r, y) ==
    IF y <= 0 THEN 0 ELSE ((Balance(c, r, y - 1) + c) * r) \div Unit.rate

\* a LISA's contribution with the government bonus: a quarter, at most 1000 pounds
WithBonus(c) == c + Min(Pounds(1000), c \div 4)

\* a balance after the expected emigration penalty at probability p
Penalized(b, p) ==
    MulDiv(b, Unit.prob * Unit.pen - p * penalty_default(b), Unit.prob * Unit.pen)

\* C1: compound_interest(numYears), numYears >= 0, returns exactly numYears
\* entries, entry 0 being (0 + c) * r and each later one (previous + c) * r; none
\* for numYears = 0, and 1100, 2310, 3641 for Account(1000, 1.1) over 3 years.
C1_CompoundRecurrence ==
    (call.op = "compound_interest" /\ call.args[1] >= 0) =>
        LET n == call.args[1]
            c == account.yearly_contribution
            r == account.interest_rate
            s == ret.value
        IN  /\ ret.status = "ok"
            /\ Len(s) = n
            /\ \A y \in 1..n :
                   s[y] = (((IF y = 1 THEN 0 ELSE s[y - 1]) + c) * r) \div Unit.rate
            /\ (account.kind = "Account" /\ c = Pounds(1000) /\ r = 11 /\ n = 3)
                   => s = <<Pounds(1100), Pounds(2310), Pounds(3641)>>

C1_Witness ==
    /\ call = Called("compound_interest", <<3>>)
    /\ account.kind = "Account"
    /\ account.yearly_contribution = Pounds(1000)
    /\ account.interest_rate = 11
    /\ ret.value = <<Pounds(1100), Pounds(2310), Pounds(3641)>>

\* C2: the pair allocate_funds returns has primary <= cap and
\* primary + secondary = the yearly investment.
C2_AllocationConserves ==
    call.op = "allocate_funds" =>
        /\ ret.value[1] <= portfolio.lisa_cap
        /\ ret.value[1] + ret.value[2] = portfolio.yearly_investment

\* the cap bites: part of the LISA's share was moved to the ISA
C2_Witness ==
    /\ call.op = "allocate_funds"
    /\ portfolio.yearly_investment * portfolio.lisa_ratio
           > portfolio.lisa_cap * Unit.ratio
    /\ portfolio.lisa_cap > 0
    /\ ret.value[1] = portfolio.lisa_cap
    /\ ret.value[2] = portfolio.yearly_investment - portfolio.lisa_cap

\* C3: run_simulation(numYears, riskProbability, applyPenalty) returns numYears
\* entries, entry y being the LISA's balance of year y, times
\* 1 - riskProbability * penalty(balance) when applyPenalty, plus the ISA's
\* balance of year y, which is never penalized.
C3_SimulationSeries ==
    (call.op = "run_simulation" /\ call.args[1] >= 0) =>
        LET n == call.args[1]
            p == call.args[2]
            applyPenalty == call.args[3]
            t == portfolio.yearly_investment
            primary == Min((t * portfolio.lisa_ratio) \div Unit.ratio, portfolio.lisa_cap)
            lisa(y) == Balance(WithBonus(primary), portfolio.interest_rate, y)
            isa(y) == Balance(t - primary, portfolio.interest_rate, y)
        IN  /\ ret.status = "ok"
            /\ Len(ret.value) = n
            /\ \A y \in 1..n :
                   ret.value[y] = (IF applyPenalty THEN Penalized(lisa(y), p) ELSE lisa(y))
                                  + isa(y)

\* a run in which the penalty took something off the LISA and the ISA held money
C3_Witness ==
    /\ call.op = "run_simulation"
    /\ call.args[1] >= 3
    /\ call.args[3]
    /\ LET n == call.args[1]
           t == portfolio.yearly_investment
           primary == Min((t * portfolio.lisa_ratio) \div Unit.ratio, portfolio.lisa_cap)
           lisa == Balance(WithBonus(primary), portfolio.interest_rate, n)
           isa == Balance(t - primary, portfolio.interest_rate, n)
       IN  /\ isa > 0
           /\ ret.value[n] < lisa + isa
           /\ ret.value[n] = Penalized(lisa, call.args[2]) + isa

\* the final balances optimal_ratio compares, one per candidate, to the penny
FinalValues(num_years, emigration_prob) ==
    [ i \in 1..Len(analysis.lisa_ratios) |->
        LET t == analysis.yearly_investment
            primary == Min((t * analysis.lisa_ratios[i]) \div Unit.ratio,
                           Pounds(lisa_cap_default))
        IN  Penalized(Balance(WithBonus(primary), analysis.interest_rate, num_years),
                      emigration_prob)
            + Balance(t - primary, analysis.interest_rate, num_years) ]

\* the final values optimal_ratio compares: the balances to the penny and,
\* unless rounded away, the float shares of each candidate's allocation
FloatValues(num_years, emigration_prob, absorbed) ==
    [ i \in 1..Len(analysis.lisa_ratios) |->
        [ pence |-> FinalValues(num_years, emigration_prob)[i],
          shares |-> IF absorbed THEN <<>>
                     ELSE allocate_funds_float(
                              Portfolio_init(analysis.yearly_investment,
                                             analysis.interest_rate,
                                             analysis.lisa_ratios[i],
                                             Pounds(lisa_cap_default))) ] ]

\* the first index of the largest of a non-empty sequence of final values
FirstMax(values) ==
    CHOOSE i \in 1..Len(values) :
        /\ \A j \in 1..Len(values) : ~Greater(values[j], values[i])
        /\ \A j \in 1..(i - 1) : Greater(values[i], values[j])

\* C4: optimal_ratio returns the candidate whose final-year value is the
\* largest, and of several such candidates the first in the sequence.
C4_FirstArgmax ==
    (/\ call.op = "optimal_ratio"
     /\ call.args[1] >= 1
     /\ Len(analysis.lisa_ratios) > 0) =>
        /\ ret.status = "ok"
        /\ ret.value = analysis.lisa_ratios[
                           FirstMax(FloatValues(call.args[1], call.args[2], call.args[3]))]

\* two different candidates share the largest final value; the earlier is returned
C4_Witness ==
    /\ call.op = "optimal_ratio"
    /\ ret.status = "ok"
    /\ ~call.args[3]
    /\ LET v == FloatValues(call.args[1], call.args[2], FALSE)
           i == FirstMax(v)
       IN  /\ ret.value = analysis.lisa_ratios[i]
           /\ \E j \in (i + 1)..Len(v) :
                  v[j] = v[i] /\ analysis.lisa_ratios[j] # analysis.lisa_ratios[i]

\* C5: with numYears = 0 and candidates to choose from, optimal_ratio returns
\* the first candidate and does not fail.
C5_ZeroYearsFirstCandidate ==
    (/\ call.op = "optimal_ratio"
     /\ call.args[1] = 0
     /\ Len(analysis.lisa_ratios) > 0) =>
        /\ ret.status = "ok"
        /\ ret.value = analysis.lisa_ratios[1]

\* one penalty_function call follows another on the same curve
PenaltyTwice ==
    /\ call.op = "penalty_function"
    /\ call'.op = "penalty_function"
    /\ SubSeq(call'.args, 2, 4) = SubSeq(call.args, 2, 4)

\* x lies ten scales or more below (above) the central point of the curve
FarBelow(args) == args[1] <= args[2] - 10 * args[4]
FarAbove(args) == args[1] >= args[2] + 10 * args[4]

\* the exponent of a call with these arguments is in the floats' range
InRange(args) == args[1] > args[2] - 709 * args[4]

C7_BonusOnce ==
    account.kind = "LISA" =>
        /\ account.yearly_contribution = WithBonus(account.given)
        /\ account.given = Pounds(4000) => account.yearly_contribution = Pounds(5000)
        /\ (call.op = "compound_interest" /\ call.args[1] >= 0) =>
               /\ Len(ret.value) = call.args[1]
               /\ \A y \in 1..call.args[1] :
                      ret.value[y]
                          = Balance(WithBonus(account.given), account.interest_rate, y)
               /\ (account.given = Pounds(4000) /\ account.interest_rate = 11
                       /\ call.args[1] = 1)
                      => ret.value = <<Pounds(5500)>>

C7_Witness ==
    /\ account.kind = "LISA"
    /\ account.given = Pounds(4000)
    /\ account.yearly_contribution = Pounds(5000)
    /\ account.interest_rate = 11
    /\ call = Called("compound_interest", <<1>>)
    /\ ret.value = <<Pounds(5500)>>

\* C8: over a sweep of risk probabilities optimize_portfolio never selects a
\* larger ratio for a higher probability than for a lower one.
C8_RatioNonIncreasing ==
    (call.op = "optimize_portfolio" /\ ret.status = "ok") =>
        /\ Len(ret.value) = Len(analysis.emigration_probs)
        /\ \A i, j \in 1..Len(ret.value) :
               analysis.emigration_probs[i] < analysis.emigration_probs[j]
                   => ret.value[i] >= ret.value[j]

\* C9: optimize_portfolio returns one ratio per risk probability, in order,
\* the i-th being what optimal_ratio returns for the i-th probability alone;
\* where optimal_ratio alone raises, the sweep raises the same.
C9_OnePerProbability ==
    call.op = "optimize_portfolio" =>
        IF call.args[1] >= 1 /\ Len(analysis.lisa_ratios) > 0
        THEN /\ ret.status = "ok"
             /\ Len(ret.value) = Len(analysis.emigration_probs)
             /\ \A i \in 1..Len(ret.value) :
                    ret.value[i]
                        = analysis.lisa_ratios[
                              FirstMax(FloatValues(call.args[1],
                                                   analysis.emigration_probs[i],
                                                   i \in call.args[2]))]
        ELSE IF Len(analysis.emigration_probs) = 0
        THEN ret = Some(<<>>)
        ELSE ret = optimal_ratio(analysis.yearly_investment, analysis.interest_rate,
                                 call.args[1], analysis.lisa_ratios,
                                 analysis.emigration_probs[1], FALSE,
                                 1 \in call.args[2])

\* a sweep of three or more probabilities whose results are not all the same
C9_Witness ==
    /\ call.op = "optimize_portfolio"
    /\ ret.status = "ok"
    /\ Len(ret.value) >= 3
    /\ Len(ret.value) = Len(analysis.emigration_probs)
    /\ \E i, j \in 1..Len(ret.value) : ret.value[i] # ret.value[j]

\* C10: run_simulation called again with the same arguments, on the same
\* Portfolio or on a second one built from the same parameters, returns the
\* same series.
C10_SameInputsSameSeries ==
    [][(/\ call.op = "run_simulation"
        /\ call'.op = "run_simulation"
        /\ runs'.made = runs.made + 1
        /\ call'.args = call.args) => ret' = ret]_vars

\* a second call with the arguments of the first, on the object the first left
\* its series in, returning that series again
C10_Witness ==
    /\ call.op = "run_simulation"
    /\ runs.made >= 2
    /\ runs.repeated
    /\ Len(ret.value) >= 2
    /\ ret.value[2] > ret.value[1]
    /\ portfolio.total_money_list = Attr(ret.value)

\* C11: compound_interest called with a negative numYears is rejected as an
\* error; it returns no series, and in particular not the empty one.
C11_NegativeYearsRejected ==
    (call.op = "compound_interest" /\ call.args[1] < 0) =>
        /\ ret.status # "ok"
        /\ ret # Some(<<>>)

\* C12: optimal_ratio called with an empty candidate sequence ends in an error
\* (np.argmax of nothing, whatever numYears is) and returns neither a ratio
\* nor a sentinel; optimize_portfolio with an empty candidate sequence ends in
\* that same error at its first probability and returns no list, partial or
\* whole.
C12_EmptyCandidatesRaise ==
    Len(analysis.lisa_ratios) = 0 =>
        /\ call.op = "optimal_ratio" => ret = Raise("ValueError")
        /\ (call.op = "optimize_portfolio" /\ Len(analysis.emigration_probs) > 0)
               => ret = Raise("ValueError")

\* a sweep of several probabilities over no candidates, ended by the error
C12_Witness ==
    /\ call.op = "optimize_portfolio"
    /\ call.args[1] >= 1
    /\ Len(analysis.lisa_ratios) = 0
    /\ Len(analysis.emigration_probs) >= 3
    /\ ret.status = "ValueError"
    /\ ret.value = <<>>

\* a penalty_function call on the default curve
DefaultCurve(args) ==
    SubSeq(args, 2, 4) = <<Pounds(central_point_default), max_value_default,
                           Pounds(scale_default)>>

\* C13: for every balance b, negative ones included, the default curve returns
\* a penalty with 0 <= penalty(b) <= maxValue, and at the central point it
\* returns maxValue / 2.
C13_PenaltyBounded ==
    (call.op = "penalty_function" /\ DefaultCurve(call.args)) =>
        /\ ret.status = "ok"
        /\ 0 <= ret.value
        /\ ret.value <= max_value_default
        /\ call.args[1] = Pounds(central_point_default)
               => 2 * ret.value = max_value_default

\* the analysis holds scenario D: 10000 a year at 1.1 over 0.0, 0.2, 0.4
ScenarioD ==
    /\ analysis.yearly_investment = Pounds(10000)
    /\ analysis.interest_rate = 11
    /\ analysis.lisa_ratios = <<0, 20, 40>>

\* C14: with yearly investment 10000, rate 1.1, cap 4000, numYears = 5 and
\* riskProbability = 0, optimal_ratio over the candidates 0.0, 0.2, 0.4
\* selects a ratio >= 0.2, the final value growing with the share put in the
\* bonused account up to the cap.
C14_FavoursBonusedAccount ==
    (ScenarioD /\ call.op = "optimal_ratio" /\ call.args[1] = 5 /\ call.args[2] = 0) =>
        /\ ret.status = "ok"
        /\ ret.value >= 20
        /\ \A i \in 1..2 :
               final_value(analysis.yearly_investment, analysis.interest_rate, 5,
                           analysis.lisa_ratios[i], 0, call.args[3]).pence
                   < final_value(analysis.yearly_investment, analysis.interest_rate, 5,
                                 analysis.lisa_ratios[i + 1], 0, call.args[3]).pence

\* scenario D run: 0.4, the share that fills the cap, is selected
C14_Witness ==
    /\ ScenarioD
    /\ call = Called("optimal_ratio", <<5, 0, FALSE>>)
    /\ ret = Some(40)

\* C15: allocate_funds returns primary = totalInvestment * ratio and secondary
\* = totalInvestment * (1 - ratio) unchanged when totalInvestment * ratio <=
\* cap; otherwise primary = cap and secondary = totalInvestment * (1 - ratio)
\* + (totalInvestment * ratio - cap), so (10000, 0.5, 4000) gives (4000,
\* 6000); and the pair is the same with show_warning_message true or false.
C15_AllocationPair ==
    call.op = "allocate_funds" =>
        LET t == portfolio.yearly_investment
            cap == portfolio.lisa_cap
            primary == (t * portfolio.lisa_ratio) \div Unit.ratio
            secondary == (t * (Unit.ratio - portfolio.lisa_ratio)) \div Unit.ratio
        IN  /\ ret.status = "ok"
            /\ primary <= cap => ret.value = <<primary, secondary>>
            /\ primary > cap => ret.value = <<cap, secondary + (primary - cap)>>
            /\ (t = Pounds(10000) /\ portfolio.lisa_ratio = 50 /\ cap = Pounds(4000))
                   => ret.value = <<Pounds(4000), Pounds(6000)>>
            /\ ret.value = allocate_funds(portfolio, ~call.args[1]).value

\* (10000, 0.5, 4000) allocated with the warning asked for, and printed
C15_Witness ==
    /\ call = Called("allocate_funds", <<TRUE>>)
    /\ portfolio.yearly_investment = Pounds(10000)
    /\ portfolio.lisa_ratio = 50
    /\ portfolio.lisa_cap = Pounds(4000)
    /\ ret.value = <<Pounds(4000), Pounds(6000)>>
    /\ ret.printed = <<Warning(Pounds(4000), Pounds(1000))>>

\* C16: for non-negative contributions, a rate > 0 and a riskProbability in
\* [0, 1], every entry of run_simulation with applyPenalty true is at most the
\* same entry with applyPenalty false and at least the ISA's balance plus half
\* the LISA's balance of that year; with riskProbability = 0 the two series
\* are equal.
C16_PenaltyBetweenHalfAndNone ==
    (call.op = "run_simulation" /\ call.args[1] >= 0) =>
        LET n == call.args[1]
            t == portfolio.yearly_investment
            primary == Min((t * portfolio.lisa_ratio) \div Unit.ratio, portfolio.lisa_cap)
            lisa(y) == Balance(WithBonus(primary), portfolio.interest_rate, y)
            isa(y) == Balance(t - primary, portfolio.interest_rate, y)
            with(p) == IF call.args[3] /\ p = call.args[2] THEN ret.value
                       ELSE run_simulation(portfolio, n, p, TRUE)
            without(p) == IF ~call.args[3] /\ p = call.args[2] THEN ret.value
                          ELSE run_simulation(portfolio, n, p, FALSE)
        IN  \A p \in Probs \cup {call.args[2]} :
               /\ Len(with(p)) = n
               /\ Len(without(p)) = n
               /\ \A y \in 1..n :
                      /\ with(p)[y] <= without(p)[y]
                      /\ with(p)[y] >= isa(y) + lisa(y) \div 2
               /\ p = 0 => with(p) = without(p)

\* a penalized run at probability 1 whose last entry lies strictly between
\* the two bounds, the LISA's balance being past the central point
C16_Witness ==
    /\ call.op = "run_simulation"
    /\ call.args[1] >= 4
    /\ call.args[2] = Unit.prob
    /\ call.args[3]
    /\ LET n == call.args[1]
           t == portfolio.yearly_investment
           primary == Min((t * portfolio.lisa_ratio) \div Unit.ratio, portfolio.lisa_cap)
           lisa == Balance(WithBonus(primary), portfolio.interest_rate, n)
           isa == Balance(t - primary, portfolio.interest_rate, n)
       IN  /\ lisa > Pounds(central_point_default)
           /\ isa > 0
           /\ ret.value[n] < run_simulation(portfolio, n, Unit.prob, FALSE)[n]
           /\ ret.value[n] > isa + lisa \div 2

\* the candidates, by index, whose LISA share reaches the default cap
Capped ==
    { i \in 1..Len(analysis.lisa_ratios) :
        analysis.lisa_ratios[i] * analysis.yearly_investment
            >= Pounds(lisa_cap_default) * Unit.ratio }

\* C17: optimal_ratio simulates with the default cap of 4000, so any two
\* candidates whose LISA share reaches the cap have the same final value, and
\* of such candidates only the first in the sequence can be returned.
C17_CappedCandidatesTie ==
    (call.op = "optimal_ratio" /\ ret.status = "ok") =>
        LET v == [ i \in 1..Len(analysis.lisa_ratios) |->
                     final_value(analysis.yearly_investment, analysis.interest_rate,
                                 call.args[1], analysis.lisa_ratios[i], call.args[2],
                                 call.args[3]) ]
        IN  /\ \A i, j \in Capped : v[i] = v[j]
            /\ \A i \in Capped :
                   ret.value = analysis.lisa_ratios[i] =>
                       ret.value = analysis.lisa_ratios[
                                       CHOOSE k \in Capped : \A j \in Capped : k <= j]

====
